---- MODULE Spec2Model ----
(***************************************************************************)
(* A model of the arrayidx crate (src/src/lib.rs): the fixed-rank index    *)
(* family Index0d..Index5d behind the ArrayIndex trait, the variable-rank  *)
(* IndexNd, and range2idxs_1d.                                             *)
(*                                                                         *)
(* Representation.  An Index0d is the unit <<>>, an Index1d is a bare      *)
(* usize, an Index{2..5}d is a tuple of that length (self[0] of the source *)
(* is self[1] here).  A Vec<usize> is a sequence.  The static type of the  *)
(* receiver is the variable rank; trait dispatch is a CASE on it.          *)
(* A call either returns a value, Ok(v), or ends the program, Panic.       *)
(***************************************************************************)
EXTENDS Integers, Sequences, FiniteSets, TLC

VARIABLES overflowChecks, rank, idx, lst, ret

vars == <<overflowChecks, rank, idx, lst, ret>>

(***************************************************************************)
(* Bounds of the model.                                                    *)
(***************************************************************************)
\* usize/isize are UsizeBits wide (a scaled-down machine word).
UsizeBits == 8
\* Components and extents are drawn from 0..MaxExt.
MaxExt == 2
\* Axes are drawn from -AxisSlack .. MaxRank + AxisSlack.
AxisSlack == 1
\* Range bounds and sizes are drawn from 0..MaxIdx and the top of usize.
MaxIdx == 2

\* The highest fixed rank that is implemented (Index5d; Above = UnimplIndex).
MaxRank == 5

Modulus == 2 ^ UsizeBits
UsizeMax == Modulus - 1

Exts == 0 .. MaxExt
Axes == (0 - AxisSlack) .. (MaxRank + AxisSlack)
Ranks == 0 .. MaxRank
UsizeVals == (0 .. MaxIdx) \cup {UsizeMax - 1, UsizeMax}

(***************************************************************************)
(* Results and machine arithmetic.                                         *)
(***************************************************************************)
Ok(v) == [ok |-> TRUE, val |-> v]
Panic == [ok |-> FALSE]

\* usize + usize: panics under overflow checks (debug), wraps otherwise.
UAdd(a, b) ==
  IF a + b > UsizeMax
  THEN IF overflowChecks THEN Panic ELSE Ok((a + b) % Modulus)
  ELSE Ok(a + b)

\* usize * usize
UMul(a, b) ==
  IF a * b > UsizeMax
  THEN IF overflowChecks THEN Panic ELSE Ok((a * b) % Modulus)
  ELSE Ok(a * b)

\* usize - usize
USub(a, b) ==
  IF a < b
  THEN IF overflowChecks THEN Panic ELSE Ok((a - b) + Modulus)
  ELSE Ok(a - b)

\* r * b and r1 + r2 where an operand is itself the outcome of a computation
MulR(r, b) == IF r.ok THEN UMul(r.val, b) ELSE Panic
AddR(r1, r2) == IF r1.ok /\ r2.ok THEN UAdd(r1.val, r2.val) ELSE Panic

\* an array literal whose elements are computed: a value iff each one is
Collect(rs) ==
  IF \A i \in DOMAIN rs : rs[i].ok
  THEN Ok([i \in DOMAIN rs |-> rs[i].val])
  ELSE Panic

\* `axis as usize`: two's complement reinterpretation of an isize
AsUsize(axis) == IF axis < 0 THEN axis + Modulus ELSE axis

\* a[i] on an array, slice or Vec: bounds-checked, 0-based
SliceIndex(a, i) == IF i < Len(a) THEN Ok(a[i + 1]) ELSE Panic

(***************************************************************************)
(* IndexNd                                                                 *)
(***************************************************************************)
IndexNd_dim(self) == Ok(Len(self))

IndexNd_zero(dim) == [d \in 1 .. dim |-> 0]

RECURSIVE IndexNd_flat_len_loop(_, _, _)
IndexNd_flat_len_loop(self, d, len) ==
  IF d >= Len(self) THEN len
  ELSE IndexNd_flat_len_loop(self, d + 1, MulR(len, self[d + 1]))

IndexNd_flat_len(self) == IndexNd_flat_len_loop(self, 0, Ok(1))

IndexNd_index_at(self, axis) == SliceIndex(self, AsUsize(axis))

RECURSIVE IndexNd_to_packed_stride_loop(_, _, _)
IndexNd_to_packed_stride_loop(self, d, stride) ==
  IF d >= Len(self) \/ ~stride.ok THEN stride
  ELSE IF d = 0
       THEN IndexNd_to_packed_stride_loop(self, 1,
              Ok([stride.val EXCEPT ![1] = 1]))
       ELSE LET m == UMul(stride.val[d], self[d])
            IN  IndexNd_to_packed_stride_loop(self, d + 1,
                  IF m.ok THEN Ok([stride.val EXCEPT ![d + 1] = m.val])
                  ELSE Panic)

IndexNd_to_packed_stride(self) ==
  IndexNd_to_packed_stride_loop(self, 0, Ok(IndexNd_zero(Len(self))))

IndexNd_inside(self) == SliceIndex(self, 0)

IndexNd_outside(self) ==
  LET i == USub(Len(self), 1)
  IN  IF i.ok THEN SliceIndex(self, i.val) ELSE Panic

\* for a in lo .. hi (exclusive): out.push(self.index_at(a))
RECURSIVE IndexNd_push_range(_, _, _, _)
IndexNd_push_range(self, lo, hi, out) ==
  IF lo >= hi \/ ~out.ok THEN out
  ELSE LET c == IndexNd_index_at(self, lo)
       IN  IndexNd_push_range(self, lo + 1, hi,
             IF c.ok THEN Ok(Append(out.val, c.val)) ELSE Panic)

\* Faulty variant (the suffix starts at axis, not axis + 1); C6 must tell it
\* from the code.
IndexNd_splice_at_offbyone(self, axis) ==
  LET prefix_idx == IndexNd_push_range(self, 0, axis, Ok(<<>>))
      select_idx == IF axis < Len(self)
                    THEN IndexNd_push_range(self, axis, axis + 1, Ok(<<>>))
                    ELSE Ok(<<>>)
      suffix_idx == IndexNd_push_range(self, axis, Len(self), Ok(<<>>))
  IN  Collect(<<prefix_idx, select_idx, suffix_idx>>)

IndexNd_splice_at(self, axis) ==
  LET prefix_idx == IndexNd_push_range(self, 0, axis, Ok(<<>>))
      select_idx == IF axis < Len(self)
                    THEN IndexNd_push_range(self, axis, axis + 1, Ok(<<>>))
                    ELSE Ok(<<>>)
      suffix_idx == IndexNd_push_range(self, axis + 1, Len(self), Ok(<<>>))
  IN  Collect(<<prefix_idx, select_idx, suffix_idx>>)

(***************************************************************************)
(* impl ArrayIndex for Index0d                                             *)
(***************************************************************************)
Index0d_from_nd(nd_shape) == IF Len(nd_shape) = 0 THEN Ok(<<>>) ELSE Panic
Index0d_to_nd(self) == <<>>
Index0d_to_packed_stride(self) == Ok(<<>>)
Index0d_index_prepend(self, major) == Ok(major)
Index0d_index_append(self, minor) == Ok(minor)
Index0d_index_at(self, axis) == Panic
Index0d_index_cut(self, axis) == Ok(<<>>)
Index0d_flat_len(self) == Ok(1)
Index0d_flat_index(self, stride) == Ok(0)
Index0d_inside(self) == Ok(1)
Index0d_outside(self) == Ok(1)
Index0d_dim(self) == Ok(0)

(***************************************************************************)
(* impl ArrayIndex for Index1d                                             *)
(***************************************************************************)
Index1d_from_nd(nd_shape) == IF Len(nd_shape) = 1 THEN Ok(nd_shape[1]) ELSE Panic
Index1d_to_nd(self) == <<self>>
Index1d_to_packed_stride(self) == Ok(1)
Index1d_index_prepend(self, major) == Ok(<<major, self>>)
Index1d_index_append(self, minor) == Ok(<<self, minor>>)
Index1d_index_at(self, axis) == IF axis = 0 THEN Ok(self) ELSE Panic
Index1d_index_cut(self, axis) == IF axis = 0 THEN Ok(<<>>) ELSE Panic
Index1d_flat_len(self) == Ok(self)
Index1d_flat_index(self, stride) == UMul(self, stride)
Index1d_inside(self) == Ok(self)
Index1d_outside(self) == Ok(self)
Index1d_dim(self) == Ok(1)

(***************************************************************************)
(* impl ArrayIndex for Index2d                                             *)
(***************************************************************************)
Index2d_from_nd(nd_shape) ==
  IF Len(nd_shape) = 2 THEN Ok(<<nd_shape[1], nd_shape[2]>>) ELSE Panic

Index2d_to_nd(self) == self

Index2d_to_packed_stride(self) ==
  LET s0 == Ok(1)
      s1 == MulR(s0, self[1])
  IN  Collect(<<s0, s1>>)

Index2d_index_prepend(self, major) == Ok(<<major, self[1], self[2]>>)
Index2d_index_append(self, minor) == Ok(<<self[1], self[2], minor>>)
Index2d_index_at(self, axis) == SliceIndex(self, AsUsize(axis))

\* Faulty variant (each arm keeps the axis it should drop); C5 must tell it
\* from the code.
Index2d_index_cut_swapped(self, axis) ==
  CASE axis = 0 -> Ok(self[1])
    [] axis = 1 -> Ok(self[2])
    [] OTHER -> Panic

Index2d_index_cut(self, axis) ==
  CASE axis = 0 -> Ok(self[2])
    [] axis = 1 -> Ok(self[1])
    [] OTHER -> Panic

Index2d_flat_len(self) == UMul(self[1], self[2])

Index2d_flat_index(self, stride) ==
  AddR(UMul(self[1], stride[1]), UMul(self[2], stride[2]))

Index2d_inside(self) == Ok(self[1])
Index2d_outside(self) == Ok(self[2])
Index2d_dim(self) == Ok(2)

(***************************************************************************)
(* impl ArrayIndex for Index3d                                             *)
(***************************************************************************)
Index3d_from_nd(nd_shape) ==
  IF Len(nd_shape) = 3
  THEN Ok(<<nd_shape[1], nd_shape[2], nd_shape[3]>>)
  ELSE Panic

Index3d_to_nd(self) == self

Index3d_to_packed_stride(self) ==
  LET s0 == Ok(1)
      s1 == MulR(s0, self[1])
      s2 == MulR(s1, self[2])
  IN  Collect(<<s0, s1, s2>>)

\* Faulty variant (the new component goes to the outside); C8 must tell it
\* from the code.
Index3d_index_prepend_outside(self, major) ==
  Ok(<<self[1], self[2], self[3], major>>)

Index3d_index_prepend(self, major) == Ok(<<major, self[1], self[2], self[3]>>)
Index3d_index_append(self, minor) == Ok(<<self[1], self[2], self[3], minor>>)
Index3d_index_at(self, axis) == SliceIndex(self, AsUsize(axis))

Index3d_index_cut(self, axis) ==
  CASE axis = 0 -> Ok(<<self[2], self[3]>>)
    [] axis = 1 -> Ok(<<self[1], self[3]>>)
    [] axis = 2 -> Ok(<<self[1], self[2]>>)
    [] OTHER -> Panic

Index3d_flat_len(self) == MulR(UMul(self[1], self[2]), self[3])

Index3d_flat_index(self, stride) ==
  AddR(AddR(UMul(self[1], stride[1]), UMul(self[2], stride[2])),
       UMul(self[3], stride[3]))

Index3d_inside(self) == Ok(self[1])
Index3d_outside(self) == Ok(self[3])
Index3d_dim(self) == Ok(3)

(***************************************************************************)
(* impl ArrayIndex for Index4d                                             *)
(***************************************************************************)
Index4d_from_nd(nd_shape) ==
  IF Len(nd_shape) = 4
  THEN Ok(<<nd_shape[1], nd_shape[2], nd_shape[3], nd_shape[4]>>)
  ELSE Panic

Index4d_to_nd(self) == self

\* Faulty variant (the last stride multiplies the extent of its own axis, not
\* of the axis below); C1 must tell it from the code.
Index4d_to_packed_stride_skewed(self) ==
  LET s0 == Ok(1)
      s1 == MulR(s0, self[1])
      s2 == MulR(s1, self[2])
      s3 == MulR(s2, self[4])
  IN  Collect(<<s0, s1, s2, s3>>)

Index4d_to_packed_stride(self) ==
  LET s0 == Ok(1)
      s1 == MulR(s0, self[1])
      s2 == MulR(s1, self[2])
      s3 == MulR(s2, self[3])
  IN  Collect(<<s0, s1, s2, s3>>)

Index4d_index_prepend(self, major) ==
  Ok(<<major, self[1], self[2], self[3], self[4]>>)

Index4d_index_append(self, minor) ==
  Ok(<<self[1], self[2], self[3], self[4], minor>>)

Index4d_index_at(self, axis) == SliceIndex(self, AsUsize(axis))

\* Faulty variant (a bad axis falls into the last arm instead of
\* unreachable!()); C3 must tell it from the code.
Index4d_index_cut_lenient(self, axis) ==
  CASE axis = 0 -> Ok(<<self[2], self[3], self[4]>>)
    [] axis = 1 -> Ok(<<self[1], self[3], self[4]>>)
    [] axis = 2 -> Ok(<<self[1], self[2], self[4]>>)
    [] OTHER -> Ok(<<self[1], self[2], self[3]>>)

Index4d_index_cut(self, axis) ==
  CASE axis = 0 -> Ok(<<self[2], self[3], self[4]>>)
    [] axis = 1 -> Ok(<<self[1], self[3], self[4]>>)
    [] axis = 2 -> Ok(<<self[1], self[2], self[4]>>)
    [] axis = 3 -> Ok(<<self[1], self[2], self[3]>>)
    [] OTHER -> Panic

Index4d_flat_len(self) ==
  MulR(MulR(UMul(self[1], self[2]), self[3]), self[4])

Index4d_flat_index(self, stride) ==
  AddR(AddR(AddR(UMul(self[1], stride[1]), UMul(self[2], stride[2])),
            UMul(self[3], stride[3])),
       UMul(self[4], stride[4]))

Index4d_inside(self) == Ok(self[1])
Index4d_outside(self) == Ok(self[4])
Index4d_dim(self) == Ok(4)

(***************************************************************************)
(* impl ArrayIndex for Index5d                                             *)
(***************************************************************************)
Index5d_from_nd(nd_shape) ==
  IF Len(nd_shape) = 5
  THEN Ok(<<nd_shape[1], nd_shape[2], nd_shape[3], nd_shape[4], nd_shape[5]>>)
  ELSE Panic

Index5d_to_nd(self) == self

Index5d_to_packed_stride(self) ==
  LET s0 == Ok(1)
      s1 == MulR(s0, self[1])
      s2 == MulR(s1, self[2])
      s3 == MulR(s2, self[3])
      s4 == MulR(s3, self[4])
  IN  Collect(<<s0, s1, s2, s3, s4>>)

\* unimplemented!()
Index5d_index_prepend(self, major) == Panic
Index5d_index_append(self, minor) == Panic

Index5d_index_at(self, axis) == SliceIndex(self, AsUsize(axis))

Index5d_index_cut(self, axis) ==
  CASE axis = 0 -> Ok(<<self[2], self[3], self[4], self[5]>>)
    [] axis = 1 -> Ok(<<self[1], self[3], self[4], self[5]>>)
    [] axis = 2 -> Ok(<<self[1], self[2], self[4], self[5]>>)
    [] axis = 3 -> Ok(<<self[1], self[2], self[3], self[5]>>)
    [] axis = 4 -> Ok(<<self[1], self[2], self[3], self[4]>>)
    [] OTHER -> Panic

Index5d_flat_len(self) ==
  MulR(MulR(MulR(UMul(self[1], self[2]), self[3]), self[4]), self[5])

Index5d_flat_index(self, stride) ==
  AddR(AddR(AddR(AddR(UMul(self[1], stride[1]), UMul(self[2], stride[2])),
                 UMul(self[3], stride[3])),
            UMul(self[4], stride[4])),
       UMul(self[5], stride[5]))

Index5d_inside(self) == Ok(self[1])
Index5d_outside(self) == Ok(self[5])
Index5d_dim(self) == Ok(5)

(***************************************************************************)
(* trait ArrayIndex: a call on a value whose static type has rank k goes   *)
(* to that type's impl.                                                    *)
(***************************************************************************)
ArrayIndex_from_nd(k, nd_shape) ==
  CASE k = 0 -> Index0d_from_nd(nd_shape)
    [] k = 1 -> Index1d_from_nd(nd_shape)
    [] k = 2 -> Index2d_from_nd(nd_shape)
    [] k = 3 -> Index3d_from_nd(nd_shape)
    [] k = 4 -> Index4d_from_nd(nd_shape)
    [] k = 5 -> Index5d_from_nd(nd_shape)

ArrayIndex_to_nd(k, self) ==
  CASE k = 0 -> Index0d_to_nd(self)
    [] k = 1 -> Index1d_to_nd(self)
    [] k = 2 -> Index2d_to_nd(self)
    [] k = 3 -> Index3d_to_nd(self)
    [] k = 4 -> Index4d_to_nd(self)
    [] k = 5 -> Index5d_to_nd(self)

ArrayIndex_to_packed_stride(k, self) ==
  CASE k = 0 -> Index0d_to_packed_stride(self)
    [] k = 1 -> Index1d_to_packed_stride(self)
    [] k = 2 -> Index2d_to_packed_stride(self)
    [] k = 3 -> Index3d_to_packed_stride(self)
    [] k = 4 -> Index4d_to_packed_stride(self)
    [] k = 5 -> Index5d_to_packed_stride(self)

ArrayIndex_index_prepend(k, self, major) ==
  CASE k = 0 -> Index0d_index_prepend(self, major)
    [] k = 1 -> Index1d_index_prepend(self, major)
    [] k = 2 -> Index2d_index_prepend(self, major)
    [] k = 3 -> Index3d_index_prepend(self, major)
    [] k = 4 -> Index4d_index_prepend(self, major)
    [] k = 5 -> Index5d_index_prepend(self, major)

ArrayIndex_index_append(k, self, minor) ==
  CASE k = 0 -> Index0d_index_append(self, minor)
    [] k = 1 -> Index1d_index_append(self, minor)
    [] k = 2 -> Index2d_index_append(self, minor)
    [] k = 3 -> Index3d_index_append(self, minor)
    [] k = 4 -> Index4d_index_append(self, minor)
    [] k = 5 -> Index5d_index_append(self, minor)

ArrayIndex_index_at(k, self, axis) ==
  CASE k = 0 -> Index0d_index_at(self, axis)
    [] k = 1 -> Index1d_index_at(self, axis)
    [] k = 2 -> Index2d_index_at(self, axis)
    [] k = 3 -> Index3d_index_at(self, axis)
    [] k = 4 -> Index4d_index_at(self, axis)
    [] k = 5 -> Index5d_index_at(self, axis)

ArrayIndex_index_cut(k, self, axis) ==
  CASE k = 0 -> Index0d_index_cut(self, axis)
    [] k = 1 -> Index1d_index_cut(self, axis)
    [] k = 2 -> Index2d_index_cut(self, axis)
    [] k = 3 -> Index3d_index_cut(self, axis)
    [] k = 4 -> Index4d_index_cut(self, axis)
    [] k = 5 -> Index5d_index_cut(self, axis)

ArrayIndex_flat_len(k, self) ==
  CASE k = 0 -> Index0d_flat_len(self)
    [] k = 1 -> Index1d_flat_len(self)
    [] k = 2 -> Index2d_flat_len(self)
    [] k = 3 -> Index3d_flat_len(self)
    [] k = 4 -> Index4d_flat_len(self)
    [] k = 5 -> Index5d_flat_len(self)

ArrayIndex_flat_index(k, self, stride) ==
  CASE k = 0 -> Index0d_flat_index(self, stride)
    [] k = 1 -> Index1d_flat_index(self, stride)
    [] k = 2 -> Index2d_flat_index(self, stride)
    [] k = 3 -> Index3d_flat_index(self, stride)
    [] k = 4 -> Index4d_flat_index(self, stride)
    [] k = 5 -> Index5d_flat_index(self, stride)

ArrayIndex_inside(k, self) ==
  CASE k = 0 -> Index0d_inside(self)
    [] k = 1 -> Index1d_inside(self)
    [] k = 2 -> Index2d_inside(self)
    [] k = 3 -> Index3d_inside(self)
    [] k = 4 -> Index4d_inside(self)
    [] k = 5 -> Index5d_inside(self)

ArrayIndex_outside(k, self) ==
  CASE k = 0 -> Index0d_outside(self)
    [] k = 1 -> Index1d_outside(self)
    [] k = 2 -> Index2d_outside(self)
    [] k = 3 -> Index3d_outside(self)
    [] k = 4 -> Index4d_outside(self)
    [] k = 5 -> Index5d_outside(self)

ArrayIndex_dim(k, self) ==
  CASE k = 0 -> Index0d_dim(self)
    [] k = 1 -> Index1d_dim(self)
    [] k = 2 -> Index2d_dim(self)
    [] k = 3 -> Index3d_dim(self)
    [] k = 4 -> Index4d_dim(self)
    [] k = 5 -> Index5d_dim(self)

\* type Above / type Below of each impl; UnimplIndex is never a value here
ArrayIndex_Above(k) == k + 1
ArrayIndex_Below(k) == IF k = 0 THEN 0 ELSE k - 1

\* provided method: IndexNd{components: self.to_nd()}
ArrayIndex__to_nd(k, self) == ArrayIndex_to_nd(k, self)

\* Faulty variant (inside() for outside()); C4 must tell it from the code.
ArrayIndex_stride_append_packed_inside(k, self, outside) ==
  LET m == MulR(ArrayIndex_inside(k, self), outside)
  IN  IF m.ok THEN ArrayIndex_index_append(k, self, m.val) ELSE Panic

\* provided method: self.index_append(self.outside() * outside)
ArrayIndex_stride_append_packed(k, self, outside) ==
  LET m == MulR(ArrayIndex_outside(k, self), outside)
  IN  IF m.ok THEN ArrayIndex_index_append(k, self, m.val) ELSE Panic

(***************************************************************************)
(* range2idxs_1d.  A Bound is [kind, x]; x is unused for Unbounded.        *)
(***************************************************************************)
Included(x) == [kind |-> "Included", x |-> x]
Excluded(x) == [kind |-> "Excluded", x |-> x]
Unbounded == [kind |-> "Unbounded", x |-> 0]

range2idxs_1d(start_bound, end_bound, size) ==
  LET start_idx == CASE start_bound.kind = "Included" -> Ok(start_bound.x)
                     [] start_bound.kind = "Excluded" -> UAdd(start_bound.x, 1)
                     [] start_bound.kind = "Unbounded" -> Ok(0)
      end_idx == CASE end_bound.kind = "Included" -> UAdd(end_bound.x, 1)
                   [] end_bound.kind = "Excluded" -> Ok(end_bound.x)
                   [] end_bound.kind = "Unbounded" -> Ok(size)
  IN  IF ~start_idx.ok \/ ~end_idx.ok THEN Panic
      ELSE IF ~(start_idx.val <= end_idx.val) THEN Panic
      ELSE IF ~(end_idx.val <= size) THEN Panic
      ELSE Ok(<<start_idx.val, end_idx.val>>)

(***************************************************************************)
(* The state machine.  A client holds one fixed-rank index idx of static   *)
(* type rank and calls the library on it; ret is the last call, with its   *)
(* receiver type k, its receiver self, its argument and its outcome.  A    *)
(* panic ends the program: nothing is enabled after it.  overflowChecks is *)
(* the build (debug: arithmetic overflow panics; release: it wraps).       *)
(* lst is the plain list the rank-changing calls are compared against.     *)
(***************************************************************************)
Init ==
  /\ overflowChecks \in BOOLEAN
  /\ rank = 0
  /\ idx = <<>>
  /\ lst = <<>>
  /\ ret = [op |-> "init", k |-> 0, self |-> <<>>, arg |-> <<>>, res |-> Ok(<<>>)]

Alive == ret.res.ok

\* the IndexNd holding idx's components
Nd == ArrayIndex__to_nd(rank, idx)

\* list reference: remove the element at 0-based position a
RemoveAt(s, a) == SubSeq(s, 1, a) \o SubSeq(s, a + 2, Len(s))

\* the tuples c of the same length as ext with 0 <= c[d] < ext[d]
RECURSIVE Box(_)
Box(ext) ==
  IF ext = <<>> THEN {<<>>}
  ELSE {Append(c, x) : c \in Box(SubSeq(ext, 1, Len(ext) - 1)),
                       x \in 0 .. (ext[Len(ext)] - 1)}

\* the coordinates inside a shape of rank k, as values of that rank's type
Coords(k, shape) ==
  CASE k = 0 -> {<<>>}
    [] k = 1 -> 0 .. (shape - 1)
    [] OTHER -> Box(shape)

Query(op, arg, res) ==
  /\ Alive
  /\ ret' = [op |-> op, k |-> rank, self |-> idx, arg |-> arg, res |-> res]
  /\ UNCHANGED <<overflowChecks, rank, idx, lst>>

IndexPrepend(v) ==
  /\ Alive
  /\ LET r == ArrayIndex_index_prepend(rank, idx, v)
     IN  /\ ret' = [op |-> "index_prepend", k |-> rank, self |-> idx,
                    arg |-> v, res |-> r]
         /\ IF r.ok
            THEN /\ rank' = ArrayIndex_Above(rank)
                 /\ idx' = r.val
                 /\ lst' = <<v>> \o lst
            ELSE UNCHANGED <<rank, idx, lst>>
  /\ UNCHANGED overflowChecks

IndexAppend(v) ==
  /\ Alive
  /\ LET r == ArrayIndex_index_append(rank, idx, v)
     IN  /\ ret' = [op |-> "index_append", k |-> rank, self |-> idx,
                    arg |-> v, res |-> r]
         /\ IF r.ok
            THEN /\ rank' = ArrayIndex_Above(rank)
                 /\ idx' = r.val
                 /\ lst' = Append(lst, v)
            ELSE UNCHANGED <<rank, idx, lst>>
  /\ UNCHANGED overflowChecks

IndexCut(axis) ==
  /\ Alive
  /\ LET r == ArrayIndex_index_cut(rank, idx, axis)
     IN  /\ ret' = [op |-> "index_cut", k |-> rank, self |-> idx,
                    arg |-> axis, res |-> r]
         /\ IF r.ok
            THEN /\ rank' = ArrayIndex_Below(rank)
                 /\ idx' = r.val
                 /\ lst' = IF axis \in 0 .. (Len(lst) - 1)
                           THEN RemoveAt(lst, axis) ELSE lst
            ELSE UNCHANGED <<rank, idx, lst>>
  /\ UNCHANGED overflowChecks

IndexAt(axis) == Query("index_at", axis, ArrayIndex_index_at(rank, idx, axis))

\* IndexKd::from_nd(idx.to_nd()) for a target type of rank k
FromNd(k) ==
  /\ Alive
  /\ ret' = [op |-> "from_nd", k |-> k, self |-> <<>>,
             arg |-> ArrayIndex_to_nd(rank, idx),
             res |-> ArrayIndex_from_nd(k, ArrayIndex_to_nd(rank, idx))]
  /\ UNCHANGED <<overflowChecks, rank, idx, lst>>

ToPackedStride ==
  Query("to_packed_stride", <<>>, ArrayIndex_to_packed_stride(rank, idx))

FlatLen == Query("flat_len", <<>>, ArrayIndex_flat_len(rank, idx))

\* c.flat_index(&idx.to_packed_stride()) for a coordinate c inside idx
FlatIndex(c) ==
  LET stride == ArrayIndex_to_packed_stride(rank, idx)
  IN  Query("flat_index", c,
            IF stride.ok THEN ArrayIndex_flat_index(rank, c, stride.val)
            ELSE Panic)

\* idx.to_packed_stride().stride_append_packed(e)
StrideAppendPacked(e) ==
  LET stride == ArrayIndex_to_packed_stride(rank, idx)
  IN  Query("stride_append_packed", e,
            IF stride.ok
            THEN ArrayIndex_stride_append_packed(rank, stride.val, e)
            ELSE Panic)

Inside == Query("inside", <<>>, ArrayIndex_inside(rank, idx))
Outside == Query("outside", <<>>, ArrayIndex_outside(rank, idx))
Dim == Query("dim", <<>>, ArrayIndex_dim(rank, idx))

\* the same questions asked of idx._to_nd()
NdDim == Query("nd_dim", <<>>, IndexNd_dim(Nd))
NdFlatLen == Query("nd_flat_len", <<>>, IndexNd_flat_len(Nd))
NdToPackedStride == Query("nd_to_packed_stride", <<>>, IndexNd_to_packed_stride(Nd))
NdInside == Query("nd_inside", <<>>, IndexNd_inside(Nd))
NdOutside == Query("nd_outside", <<>>, IndexNd_outside(Nd))
NdSpliceAt(axis) == Query("nd_splice_at", axis, IndexNd_splice_at(Nd, axis))

\* The calls that change the rank of the client's index.
RankChange ==
  \/ \E v \in Exts : IndexPrepend(v)
  \/ \E v \in Exts : IndexAppend(v)
  \/ \E axis \in Axes : IndexCut(axis)

\* A client that builds, cuts, reads and converts indices.
Next ==
  \/ RankChange
  \/ \E axis \in Axes : IndexAt(axis)
  \/ \E k \in Ranks : FromNd(k)

Spec == Init /\ [][Next]_vars

\* A client that treats its index as a shape and addresses flat memory.
NextStride ==
  \/ RankChange
  \/ ToPackedStride
  \/ FlatLen
  \/ \E c \in Coords(rank, idx) : FlatIndex(c)
  \/ \E e \in Exts : StrideAppendPacked(e)

SpecStride == Init /\ [][NextStride]_vars

\* A client that asks the fixed-rank index and its IndexNd the same things.
NextNd ==
  \/ RankChange
  \/ ToPackedStride
  \/ FlatLen
  \/ Inside
  \/ Outside
  \/ Dim
  \/ NdDim
  \/ NdFlatLen
  \/ NdToPackedStride
  \/ NdInside
  \/ NdOutside
  \/ \E axis \in Axes : NdSpliceAt(axis)

SpecNd == Init /\ [][NextNd]_vars

(***************************************************************************)
(* range2idxs_1d on its own: every pair of bounds over every size.         *)
(***************************************************************************)
Bounds == {Unbounded} \cup {Included(x) : x \in UsizeVals}
                      \cup {Excluded(x) : x \in UsizeVals}

Range2Idxs1d(start_bound, end_bound, size) ==
  /\ Alive
  /\ ret' = [op |-> "range2idxs_1d", k |-> 0, self |-> <<>>,
             arg |-> <<start_bound, end_bound, size>>,
             res |-> range2idxs_1d(start_bound, end_bound, size)]
  /\ UNCHANGED <<overflowChecks, rank, idx, lst>>

NextRange ==
  \E start_bound \in Bounds, end_bound \in Bounds, size \in UsizeVals :
    Range2Idxs1d(start_bound, end_bound, size)

SpecRange == Init /\ [][NextRange]_vars

(***************************************************************************)
(* Properties.                                                             *)
(***************************************************************************)

\* C1: for the shape idx of any rank 0..5 and its packed stride, flat_index
\* over the coordinates inside the shape is a bijection onto
\* 0 .. flat_len - 1: every value is in the range, the image is the whole
\* range, and there are as many coordinates as integers in the range.
C1_PackedStrideBijection ==
  (ret.op \in {"flat_index", "flat_len"}) =>
    LET stride == ArrayIndex_to_packed_stride(rank, idx)
        len == ArrayIndex_flat_len(rank, idx)
        coords == Coords(rank, idx)
    IN  /\ stride.ok /\ len.ok
        /\ \A c \in coords : ArrayIndex_flat_index(rank, c, stride.val).ok
        /\ {ArrayIndex_flat_index(rank, c, stride.val).val : c \in coords}
             = 0 .. (len.val - 1)
        /\ Cardinality(coords) = len.val
        /\ (ret.op = "flat_index") =>
             ret.res.ok /\ ret.res.val \in 0 .. (len.val - 1)

C1_Witness ==
  /\ ret.op = "flat_index" /\ rank = 5 /\ idx = <<2, 2, 2, 2, 2>>
  /\ ret.arg = <<1, 0, 1, 1, 1>> /\ ret.res.ok /\ ret.res.val = 29

\* The resolution table of a range in unbounded integers.
ExactStart(b) ==
  CASE b.kind = "Included" -> b.x
    [] b.kind = "Excluded" -> b.x + 1
    [] b.kind = "Unbounded" -> 0

ExactEnd(b, size) ==
  CASE b.kind = "Included" -> b.x + 1
    [] b.kind = "Excluded" -> b.x
    [] b.kind = "Unbounded" -> size

\* C2: range2idxs_1d resolves start to x / x+1 / 0 and end to y+1 / y / n,
\* returns exactly that pair when start <= end <= n and fails otherwise.
C2_RangeResolution ==
  (ret.op = "range2idxs_1d") =>
    LET s == ExactStart(ret.arg[1])
        e == ExactEnd(ret.arg[2], ret.arg[3])
    IN  IF s <= e /\ e <= ret.arg[3]
        THEN ret.res.ok /\ ret.res.val = <<s, e>>
        ELSE ~ret.res.ok

\* C3 as stated: from_nd with a sequence whose length is not the rank, and
\* index_at / index_cut with an axis outside [0, k), k any rank 0..5, never
\* return a value.
C3_ContractViolationsFatal ==
  /\ (ret.op = "from_nd" /\ Len(ret.arg) # ret.k) => ~ret.res.ok
  /\ (ret.op \in {"index_at", "index_cut"} /\ ret.arg \notin 0 .. (ret.k - 1))
       => ~ret.res.ok

\* C3 amended: as above, except that index_cut on the rank-0 index returns
\* the rank-0 index for every axis; index_cut is fatal on a bad axis only
\* for ranks 1..5.
C3_ContractViolationsFatalButCut0 ==
  /\ (ret.op = "from_nd" /\ Len(ret.arg) # ret.k) => ~ret.res.ok
  /\ (ret.op = "index_at" /\ ret.arg \notin 0 .. (ret.k - 1)) => ~ret.res.ok
  /\ (ret.op = "index_cut" /\ ret.k >= 1 /\ ret.arg \notin 0 .. (ret.k - 1))
       => ~ret.res.ok
  /\ (ret.op = "index_cut" /\ ret.k = 0) => ret.res.ok /\ ret.res.val = <<>>

C3_Witness ==
  /\ ret.op = "index_cut" /\ ret.k = 3 /\ ret.arg = 3 /\ ~ret.res.ok

\* C4 as stated: for a shape idx of rank 0..4, its packed stride extended by
\* stride_append_packed(e) is the packed stride of idx.index_append(e).
C4_StrideAppendPackedOfExtent ==
  (ret.op = "stride_append_packed" /\ ret.k <= 4) =>
    LET above == ArrayIndex_index_append(rank, idx, ret.arg)
    IN  /\ above.ok
        /\ ret.res = ArrayIndex_to_packed_stride(ArrayIndex_Above(rank), above.val)

\* C4 amended: for a shape idx of rank 0..4, its packed stride extended by
\* stride_append_packed(idx.outside()), the extent of the shape's own
\* outermost axis, is the packed stride of idx.index_append(e) for every e.
C4_StrideAppendPackedOfOutside ==
  (/\ ret.op = "stride_append_packed" /\ ret.k <= 4
   /\ Ok(ret.arg) = ArrayIndex_outside(rank, idx)) =>
    \A e \in Exts :
      LET above == ArrayIndex_index_append(rank, idx, e)
      IN  /\ above.ok
          /\ ret.res = ArrayIndex_to_packed_stride(ArrayIndex_Above(rank), above.val)

C4_Witness ==
  /\ ret.op = "stride_append_packed" /\ rank = 4 /\ idx = <<2, 1, 2, 2>>
  /\ ret.arg = 2 /\ ret.res.ok /\ ret.res.val = <<1, 2, 2, 4, 8>>

\* C5: after I.index_append(v) on a rank k in 0..4, index_cut(k) of the
\* result is I; after I.index_prepend(v), index_cut(0) of the result is I.
C5_AppendPrependCutRoundTrip ==
  /\ (ret.op = "index_append" /\ ret.k <= 4) =>
       ret.res.ok /\ ArrayIndex_index_cut(rank, idx, ret.k) = Ok(ret.self)
  /\ (ret.op = "index_prepend" /\ ret.k <= 4) =>
       ret.res.ok /\ ArrayIndex_index_cut(rank, idx, 0) = Ok(ret.self)

C5_Witness ==
  /\ ret.op = "index_prepend" /\ ret.k = 4 /\ ret.self = <<1, 2, 0, 2>>
  /\ ret.arg = 1 /\ ret.res.ok

\* C6: for a valid axis a, splice_at(a) returns (prefix, selection, suffix)
\* with prefix the components at axes < a, selection the one at a, suffix
\* those at axes > a; concatenated they are the components.
C6_SpliceReconstructs ==
  (ret.op = "nd_splice_at" /\ ret.arg \in 0 .. (Len(Nd) - 1)) =>
    /\ ret.res.ok
    /\ ret.res.val[1] = SubSeq(Nd, 1, ret.arg)
    /\ ret.res.val[2] = <<Nd[ret.arg + 1]>>
    /\ ret.res.val[3] = SubSeq(Nd, ret.arg + 2, Len(Nd))
    /\ ret.res.val[1] \o ret.res.val[2] \o ret.res.val[3] = Nd

C6_Witness ==
  /\ ret.op = "nd_splice_at" /\ ret.arg = 2 /\ Nd = <<0, 1, 2, 1, 0>>
  /\ ret.res.ok /\ ret.res.val = << <<0, 1>>, <<2>>, <<1, 0>> >>

\* C7: for every signed axis a, splice_at(a) returns, and its selection is
\* empty exactly when a is outside [0, dim) and a singleton otherwise.
C7_SpliceSelectionTotal ==
  (ret.op = "nd_splice_at") =>
    /\ ret.res.ok
    /\ Len(ret.res.val[2]) =
         (IF ret.arg \in 0 .. (Len(Nd) - 1) THEN 1 ELSE 0)

\* C8: after any sequence of index_prepend, index_append and index_cut at a
\* valid axis from the rank-0 index, to_nd() is the list the same inserts
\* and removals build, dim() is its length, and each such call changed the
\* rank by exactly one.
C8_RankChangesRefineList ==
  /\ ArrayIndex_to_nd(rank, idx) = lst
  /\ ArrayIndex_dim(rank, idx) = Ok(Len(lst))
  /\ (ret.op \in {"index_prepend", "index_append"} /\ ret.res.ok) =>
       ArrayIndex_dim(rank, idx) = Ok(ret.k + 1)
  /\ (ret.op = "index_cut" /\ ret.arg \in 0 .. (ret.k - 1)) =>
       ret.res.ok /\ ArrayIndex_dim(rank, idx) = Ok(ret.k - 1)

C8_Witness ==
  /\ ret.op = "index_cut" /\ ret.k = 5 /\ ret.arg = 2
  /\ ret.self = <<0, 1, 2, 1, 2>> /\ lst = <<0, 1, 1, 2>>

\* C9: in a build whose arithmetic wraps, whenever range2idxs_1d returns
\* (start, end), these are the resolution-table values in unbounded
\* integers, and so satisfy start <= end <= size.
C9_WrapNeverReturnsWrong ==
  (ret.op = "range2idxs_1d" /\ ~overflowChecks /\ ret.res.ok) =>
    /\ ret.res.val[1] = ExactStart(ret.arg[1])
    /\ ret.res.val[2] = ExactEnd(ret.arg[2], ret.arg[3])
    /\ ExactEnd(ret.arg[2], ret.arg[3]) <= ret.arg[3]

\* C10: idx._to_nd() answers dim, flat_len, to_packed_stride, inside and
\* outside as idx itself does, and every one of these calls returns, on
\* both sides, at every rank 0..5.
C10_NdAgreesWithFixedRank ==
  /\ (ret.op \in {"dim", "flat_len", "to_packed_stride", "inside", "outside"})
       => ret.res.ok
  /\ (ret.op = "nd_dim") => ret.res.ok /\ ret.res = ArrayIndex_dim(rank, idx)
  /\ (ret.op = "nd_flat_len") =>
       ret.res.ok /\ ret.res = ArrayIndex_flat_len(rank, idx)
  /\ (ret.op = "nd_to_packed_stride") =>
       /\ ret.res.ok
       /\ ArrayIndex_to_packed_stride(rank, idx).ok
       /\ ret.res.val =
            ArrayIndex__to_nd(rank, ArrayIndex_to_packed_stride(rank, idx).val)
  /\ (ret.op = "nd_inside") =>
       ret.res.ok /\ ret.res = ArrayIndex_inside(rank, idx)
  /\ (ret.op = "nd_outside") =>
       ret.res.ok /\ ret.res = ArrayIndex_outside(rank, idx)

====
